---- MODULE Spec2Model ----
(***************************************************************************)
(* A model of list2base58.py: the command-line tool that turns a Solana    *)
(* secret-key list (32 or 64 integers in 0..255) into a base58 string.     *)
(*                                                                         *)
(* Text (the argument, a file's content, the printed key) is a sequence of *)
(* one-character strings, so that parsing and formatting are computed, not *)
(* assumed.  Python values are tagged records of one shape.                *)
(***************************************************************************)
EXTENDS Integers, Sequences, FiniteSets, TLC

(***************************************************************************)
(* Loops.  A loop "while not done: st = step(st)" is an operator ...Rounds *)
(* that runs at most k rounds from st.  The rounds are halved rather than  *)
(* chained, which keeps the evaluation shallow; they are applied one after *)
(* the other all the same.                                                 *)
(***************************************************************************)

(***************************************************************************)
(* Characters and the str methods load_list uses                           *)
(***************************************************************************)
Digits == <<"0", "1", "2", "3", "4", "5", "6", "7", "8", "9">>

IsDigit(c) == \E d \in 1..10 : Digits[d] = c

DigitVal(c) == (CHOOSE d \in 1..10 : Digits[d] = c) - 1

\* str.isspace for the characters that occur: str.strip(), str.split() and
\* int() all use it.
IsSpace(c) == c \in {" ", "\t", "\n", "\r"}

RECURSIVE SkipSpace(_, _)
SkipSpace(s, i) ==
    IF i <= Len(s) /\ IsSpace(s[i]) THEN SkipSpace(s, i + 1) ELSE i

RECURSIVE SkipSpaceBack(_, _)
SkipSpaceBack(s, i) ==
    IF i >= 1 /\ IsSpace(s[i]) THEN SkipSpaceBack(s, i - 1) ELSE i

\* str.strip()
strip(s) == SubSeq(s, SkipSpace(s, 1), SkipSpaceBack(s, Len(s)))

\* str.replace(old, new) for one-character old and new
replace(s, old, new) == [i \in 1..Len(s) |-> IF s[i] = old THEN new ELSE s[i]]

\* str.find(sep, i): the index of the first sep at or after i, Len(s)+1 when
\* there is none.
RECURSIVE NextSep(_, _, _)
NextSep(s, sep, i) ==
    IF i <= Len(s) /\ s[i] # sep THEN NextSep(s, sep, i + 1) ELSE i

\* str.split(sep) for a one-character sep: n separators give n+1 pieces,
\* empty pieces included.  One round cuts one piece off.
SplitStep(s, sep, st) ==
    LET j == NextSep(s, sep, st.start)
    IN  [start |-> j + 1, acc |-> Append(st.acc, SubSeq(s, st.start, j - 1)),
         done |-> j > Len(s)]

RECURSIVE SplitRounds(_, _, _, _)
SplitRounds(s, sep, st, k) ==
    IF st.done THEN st
    ELSE IF k <= 1 THEN SplitStep(s, sep, st)
    ELSE SplitRounds(s, sep, SplitRounds(s, sep, st, k \div 2), k - k \div 2)

split(s, sep) ==
    SplitRounds(s, sep, [start |-> 1, acc |-> <<>>, done |-> FALSE], Len(s) + 1).acc

\* str.split() without a separator: the maximal runs of non-whitespace.
RECURSIVE SkipWord(_, _)
SkipWord(s, i) ==
    IF i <= Len(s) /\ ~IsSpace(s[i]) THEN SkipWord(s, i + 1) ELSE i

SplitWsStep(s, st) ==
    LET b == SkipSpace(s, st.start)
        e == SkipWord(s, b)
    IN  IF b > Len(s) THEN [start |-> b, acc |-> st.acc, done |-> TRUE]
        ELSE [start |-> e, acc |-> Append(st.acc, SubSeq(s, b, e - 1)), done |-> FALSE]

RECURSIVE SplitWsRounds(_, _, _)
SplitWsRounds(s, st, k) ==
    IF st.done THEN st
    ELSE IF k <= 1 THEN SplitWsStep(s, st)
    ELSE SplitWsRounds(s, SplitWsRounds(s, st, k \div 2), k - k \div 2)

split_ws(s) ==
    SplitWsRounds(s, [start |-> 1, acc |-> <<>>, done |-> FALSE], Len(s) + 1).acc

(***************************************************************************)
(* Python values and exceptions                                            *)
(***************************************************************************)
\* One record shape for every value: t is the type; n the value of an int,
\* or the integer part of a float's magnitude; neg and fd the sign and the
\* fraction digits of a float; items the elements of a list or tuple.
PyInt(n) == [t |-> "int", neg |-> FALSE, n |-> n, fd |-> <<>>, items |-> <<>>]

PyFloat(neg, n, fd) ==
    [t |-> "float", neg |-> neg, n |-> n, fd |-> fd, items |-> <<>>]

PyList(items) ==
    [t |-> "list", neg |-> FALSE, n |-> 0, fd |-> <<>>, items |-> items]

PyTuple(items) ==
    [t |-> "tuple", neg |-> FALSE, n |-> 0, fd |-> <<>>, items |-> items]

PyEllipsis == [t |-> "ellipsis", neg |-> FALSE, n |-> 0, fd |-> <<>>, items |-> <<>>]

PyNone == [t |-> "None", neg |-> FALSE, n |-> 0, fd |-> <<>>, items |-> <<>>]

\* An exception: its type and what str(e) gives.
NoExc == [type |-> "", msg |-> ""]

Exc(type, msg) == [type |-> type, msg |-> msg]

\* The result of a call: a value, or an exception raised.
Ret(v) == [ok |-> TRUE, val |-> v, exc |-> NoExc]

Raise(type, msg) == [ok |-> FALSE, val |-> PyNone, exc |-> Exc(type, msg)]

(***************************************************************************)
(* int(x) on a string: optional surrounding whitespace, an optional sign,  *)
(* then decimal digits, single underscores allowed between digits.         *)
(***************************************************************************)
RECURSIVE IntDigits(_, _, _, _)
\* Scans s from i; acc is the value so far, after_digit whether the previous
\* character was a digit.  Gives -1 when s[i..] is not digit(_?digit)*.
IntDigits(s, i, acc, after_digit) ==
    IF i > Len(s) THEN (IF after_digit THEN acc ELSE -1)
    ELSE IF IsDigit(s[i]) THEN IntDigits(s, i + 1, acc * 10 + DigitVal(s[i]), TRUE)
    ELSE IF s[i] = "_" /\ after_digit THEN IntDigits(s, i + 1, acc, FALSE)
    ELSE -1

py_int(x) ==
    LET s    == strip(x)
        sgn  == Len(s) >= 1 /\ s[1] \in {"-", "+"}
        body == IF sgn THEN SubSeq(s, 2, Len(s)) ELSE s
        mag  == IF Len(body) >= 1 /\ IsDigit(body[1])
                THEN IntDigits(body, 1, 0, FALSE) ELSE -1
    IN  IF mag < 0 THEN Raise("ValueError", "invalid literal for int() with base 10")
        ELSE Ret(PyInt(IF sgn /\ s[1] = "-" THEN 0 - mag ELSE mag))

(***************************************************************************)
(* Parsers return [ok, val, pos]: the value read and the index after it.   *)
(***************************************************************************)
Parsed(v, pos) == [ok |-> TRUE, val |-> v, pos |-> pos]

NoParse == [ok |-> FALSE, val |-> PyNone, pos |-> 0]

RECURSIVE SkipDigits(_, _)
SkipDigits(s, i) ==
    IF i <= Len(s) /\ IsDigit(s[i]) THEN SkipDigits(s, i + 1) ELSE i

\* The value of the decimal digits s[i..k-1] (0 when there are none).
RECURSIVE DigitsValue(_, _, _, _)
DigitsValue(s, i, k, acc) ==
    IF i >= k THEN acc ELSE DigitsValue(s, i + 1, k, acc * 10 + DigitVal(s[i]))

DigitSeq(s, i, k) == [j \in 1..(k - i) |-> DigitVal(s[i + j - 1])]

(***************************************************************************)
(* json.loads, for documents made of arrays and numbers.  (Strings,        *)
(* objects, the literals true/false/null/NaN/Infinity and exponents need   *)
(* letters, quotes or braces, which no modelled file content holds: such a *)
(* character ends the parse with "Expecting value".)                       *)
(***************************************************************************)
\* json.decoder's NUMBER_RE: (-?(?:0|[1-9]\d*))(\.\d+)?
JsonNumber(s, i) ==
    LET neg == i <= Len(s) /\ s[i] = "-"
        j   == IF neg THEN i + 1 ELSE i
    IN  IF j > Len(s) \/ ~IsDigit(s[j]) THEN NoParse
        ELSE LET k  == IF s[j] = "0" THEN j + 1 ELSE SkipDigits(s, j)
                 iv == DigitsValue(s, j, k, 0)
                 fr == k + 1 <= Len(s) /\ s[k] = "." /\ IsDigit(s[k + 1])
                 m  == IF fr THEN SkipDigits(s, k + 1) ELSE k
             IN  IF fr THEN Parsed(PyFloat(neg, iv, DigitSeq(s, k + 1, m)), m)
                 ELSE Parsed(PyInt(IF neg THEN 0 - iv ELSE iv), k)

RECURSIVE JsonValue(_, _)

\* One round of JSONArray's loop: a value, then "]" or "," and on to the
\* next value.
JsonItemStep(s, st) ==
    LET r == JsonValue(s, st.pos)
        k == SkipSpace(s, r.pos)
    IN  IF ~r.ok \/ k > Len(s) THEN [pos |-> 0, acc |-> <<>>, status |-> "fail"]
        ELSE IF s[k] = "]"
        THEN [pos |-> k + 1, acc |-> Append(st.acc, r.val), status |-> "done"]
        ELSE IF s[k] = ","
        THEN [pos |-> SkipSpace(s, k + 1), acc |-> Append(st.acc, r.val), status |-> "more"]
        ELSE [pos |-> 0, acc |-> <<>>, status |-> "fail"]

RECURSIVE JsonItemRounds(_, _, _)
JsonItemRounds(s, st, k) ==
    IF st.status # "more" THEN st
    ELSE IF k <= 1 THEN JsonItemStep(s, st)
    ELSE JsonItemRounds(s, JsonItemRounds(s, st, k \div 2), k - k \div 2)

JsonItems(s, i) ==
    LET st == JsonItemRounds(s, [pos |-> i, acc |-> <<>>, status |-> "more"], Len(s) + 1)
    IN  IF st.status = "done" THEN Parsed(PyList(st.acc), st.pos) ELSE NoParse

\* scan_once at i (whitespace before it already skipped)
JsonValue(s, i) ==
    IF i > Len(s) THEN NoParse
    ELSE IF s[i] = "["
         THEN LET j == SkipSpace(s, i + 1)
              IN  IF j <= Len(s) /\ s[j] = "]" THEN Parsed(PyList(<<>>), j + 1)
                  ELSE JsonItems(s, j)
         ELSE JsonNumber(s, i)

json_loads(text) ==
    LET r == JsonValue(text, SkipSpace(text, 1))
    IN  IF ~r.ok THEN Raise("JSONDecodeError", "Expecting value")
        ELSE IF SkipSpace(text, r.pos) <= Len(text)
             THEN Raise("JSONDecodeError", "Extra data")
             ELSE Ret(r.val)

(***************************************************************************)
(* ast.literal_eval, for expressions made of numbers, signs, lists, "..."  *)
(* and commas (a top-level comma makes a tuple).  Every other expression   *)
(* is either not Python (SyntaxError) or not a literal (ValueError); the   *)
(* two are one outcome here, an exception main's handler catches.          *)
(***************************************************************************)
\* Between tokens: blanks and tabs, and inside brackets line ends too.
RECURSIVE LitSkip(_, _, _)
LitSkip(s, i, depth) ==
    IF i <= Len(s) /\ (s[i] \in {" ", "\t"} \/ (depth > 0 /\ IsSpace(s[i])))
    THEN LitSkip(s, i + 1, depth) ELSE i

\* The end of a digit part starting at i: digits, single underscores allowed
\* between them.  i when there is no digit, -1 when an underscore is not
\* followed by a digit.
RECURSIVE SkipDigitPart(_, _)
SkipDigitPart(s, i) ==
    IF i > Len(s) \/ ~IsDigit(s[i]) THEN i
    ELSE IF i + 1 <= Len(s) /\ s[i + 1] = "_"
         THEN (IF i + 2 <= Len(s) /\ IsDigit(s[i + 2]) THEN SkipDigitPart(s, i + 2) ELSE -1)
         ELSE SkipDigitPart(s, i + 1)

\* s[i..k-1] without its underscores
PlainDigits(s, i, k) == SelectSeq(SubSeq(s, i, k - 1), LAMBDA c : c # "_")

\* A number token: a decimal integer (no leading zero unless it is all
\* zeros) or a point float (digits "." digits, either side optional).
LitNumber(s, i) ==
    LET k == SkipDigitPart(s, i)
    IN  IF k < 0 THEN NoParse
        ELSE IF k <= Len(s) /\ s[k] = "."
        THEN LET m  == SkipDigitPart(s, k + 1)
                 ip == PlainDigits(s, i, k)
                 fp == PlainDigits(s, k + 1, m)
             IN  IF m < 0 \/ (k = i /\ m = k + 1) THEN NoParse
                 ELSE Parsed(PyFloat(FALSE, DigitsValue(ip, 1, Len(ip) + 1, 0),
                                     DigitSeq(fp, 1, Len(fp) + 1)), m)
        ELSE LET ip == PlainDigits(s, i, k)
             IN  IF k = i THEN NoParse
                 ELSE IF ip[1] = "0" /\ \E j \in 1..Len(ip) : ip[j] # "0" THEN NoParse
                 ELSE Parsed(PyInt(DigitsValue(ip, 1, Len(ip) + 1, 0)), k)

Negated(v) ==
    IF v.t = "int" THEN PyInt(0 - v.n) ELSE PyFloat(~v.neg, v.n, v.fd)

\* The end of the expression: only blanks, then only line ends, follow.
RECURSIVE SkipLineEnds(_, _)
SkipLineEnds(s, i) ==
    IF i <= Len(s) /\ s[i] \in {"\n", "\r"} THEN SkipLineEnds(s, i + 1) ELSE i

AtEnd(s, i) == SkipLineEnds(s, LitSkip(s, i, 0)) > Len(s)

RECURSIVE LitItem(_, _, _)

\* After the element r of a sequence, with k the index of what follows it:
\* the closing token ends the sequence, a comma continues it.
LitAfterItem(s, acc, r, k, closes) ==
    IF ~r.ok THEN [pos |-> 0, acc |-> <<>>, status |-> "fail"]
    ELSE IF closes THEN [pos |-> k + 1, acc |-> Append(acc, r.val), status |-> "done"]
    ELSE IF k <= Len(s) /\ s[k] = ","
    THEN [pos |-> k + 1, acc |-> Append(acc, r.val), status |-> "more"]
    ELSE [pos |-> 0, acc |-> <<>>, status |-> "fail"]

LitListItem(s, depth, acc, r) ==
    LitAfterItem(s, acc, r, LitSkip(s, r.pos, depth),
                 LET k == LitSkip(s, r.pos, depth) IN k <= Len(s) /\ s[k] = "]")

\* One round of reading a list display, j being where the next token is:
\* "]" ends it (also right after "[" or after a comma), otherwise an
\* element, then "]" or ",".
LitItemAt(s, depth, st, j) ==
    IF j > Len(s) THEN [pos |-> 0, acc |-> <<>>, status |-> "fail"]
    ELSE IF s[j] = "]" THEN [pos |-> j + 1, acc |-> st.acc, status |-> "done"]
    ELSE LitListItem(s, depth, st.acc, LitItem(s, j, depth))

LitItemStep(s, depth, st) == LitItemAt(s, depth, st, LitSkip(s, st.pos, depth))

RECURSIVE LitItemRounds(_, _, _, _)
LitItemRounds(s, depth, st, k) ==
    IF st.status # "more" THEN st
    ELSE IF k <= 1 THEN LitItemStep(s, depth, st)
    ELSE LitItemRounds(s, depth, LitItemRounds(s, depth, st, k \div 2), k - k \div 2)

ListOf(st) == IF st.status = "done" THEN Parsed(PyList(st.acc), st.pos) ELSE NoParse

\* The list display whose "[" is just before i
LitItems(s, i, depth) ==
    ListOf(LitItemRounds(s, depth, [pos |-> i, acc |-> <<>>, status |-> "more"],
                         Len(s) + 1))

\* A sign and the number r after it
Signed(sign, r) ==
    IF ~r.ok THEN NoParse
    ELSE Parsed(IF sign = "-" THEN Negated(r.val) ELSE r.val, r.pos)

\* One element at j: a number, a signed number, a list display, or the
\* constant "..." (Ellipsis).
LitItemAtToken(s, j, depth) ==
    IF j > Len(s) THEN NoParse
    ELSE IF s[j] \in {"-", "+"}
    THEN Signed(s[j], LitNumber(s, LitSkip(s, j + 1, depth)))
    ELSE IF s[j] = "[" THEN LitItems(s, j + 1, depth + 1)
    ELSE IF j + 2 <= Len(s) /\ SubSeq(s, j, j + 2) = <<".", ".", ".">>
    THEN Parsed(PyEllipsis, j + 3)
    ELSE LitNumber(s, j)

LitItem(s, i, depth) == LitItemAtToken(s, LitSkip(s, i, depth), depth)

\* After the element r of a top-level tuple: the end of the expression ends
\* it, a comma continues it.
LitTupleItem(s, acc, r) ==
    LitAfterItem(s, acc, r,
                 IF AtEnd(s, LitSkip(s, r.pos, 0)) THEN Len(s) ELSE LitSkip(s, r.pos, 0),
                 AtEnd(s, LitSkip(s, r.pos, 0)))

\* One round of reading a top-level tuple after a comma: the end of the
\* expression, or an element and then the end or another comma.
LitTupleStep(s, st) ==
    IF AtEnd(s, st.pos) THEN [pos |-> Len(s) + 1, acc |-> st.acc, status |-> "done"]
    ELSE LitTupleItem(s, st.acc, LitItem(s, st.pos, 0))

RECURSIVE LitTupleRounds(_, _, _)
LitTupleRounds(s, st, k) ==
    IF st.status # "more" THEN st
    ELSE IF k <= 1 THEN LitTupleStep(s, st)
    ELSE LitTupleRounds(s, LitTupleRounds(s, st, k \div 2), k - k \div 2)

TupleOf(st) == IF st.status = "done" THEN Parsed(PyTuple(st.acc), st.pos) ELSE NoParse

\* The tuple whose first element first is followed by a comma just before i
LitTuple(s, i, first) ==
    TupleOf(LitTupleRounds(s, [pos |-> i, acc |-> <<first>>, status |-> "more"],
                           Len(s) + 1))

\* The expression s after its first element r: the end, or a comma and the
\* rest of a tuple.
LitAfterFirst(s, r, k) ==
    IF ~r.ok THEN NoParse
    ELSE IF AtEnd(s, k) THEN r
    ELSE IF s[k] = "," THEN LitTuple(s, k + 1, r.val)
    ELSE NoParse

LitExpression(s, r) == LitAfterFirst(s, r, LitSkip(s, r.pos, 0))

\* The parser skips empty first lines; an indented first line is an error.
LitParse(s) ==
    IF Len(s) >= 1 /\ s[1] \in {" ", "\t"} THEN NoParse
    ELSE LitExpression(s, LitItem(s, 1, 0))

LitFirstLine(t) == LitParse(SubSeq(t, SkipLineEnds(t, 1), Len(t)))

ResultOf(v) == IF v.ok THEN Ret(v.val) ELSE Raise("LiteralError", "malformed literal")

\* literal_eval strips leading blanks and tabs before it parses.
literal_eval(source) ==
    ResultOf(LitFirstLine(SubSeq(source, LitSkip(source, 1, 0), Len(source))))

(***************************************************************************)
(* base58.b58encode: the Bitcoin alphabet, no checksum, no version byte.   *)
(* A byte string is a sequence of integers in 0..255.  The integer the     *)
(* bytes denote (int.from_bytes, big-endian) does not fit a machine word,  *)
(* so it is kept as its base-256 digits, most significant first, without   *)
(* leading zeros; the empty sequence is 0.                                 *)
(***************************************************************************)
BITCOIN_ALPHABET ==
    << "1", "2", "3", "4", "5", "6", "7", "8", "9",
       "A", "B", "C", "D", "E", "F", "G", "H", "J", "K", "L", "M", "N", "P",
       "Q", "R", "S", "T", "U", "V", "W", "X", "Y", "Z",
       "a", "b", "c", "d", "e", "f", "g", "h", "i", "j", "k", "m", "n", "o",
       "p", "q", "r", "s", "t", "u", "v", "w", "x", "y", "z" >>

\* bytes.lstrip(b"\0")
RECURSIVE SkipZeros(_, _)
SkipZeros(v, i) == IF i <= Len(v) /\ v[i] = 0 THEN SkipZeros(v, i + 1) ELSE i

LStripZeros(v) == SubSeq(v, SkipZeros(v, 1), Len(v))

\* Long division by 58 of the digits acc[lo..hi], with rem carried in from
\* the digits before lo: the quotient's digits for lo..hi and the remainder
\* carried out.  The range is halved rather than walked, which keeps the
\* evaluation shallow; the digits are processed left to right all the same.
RECURSIVE DivRange(_, _, _, _)
DivRange(acc, lo, hi, rem) ==
    IF lo = hi
    THEN LET cur == rem * 256 + acc[lo]
         IN  [q |-> <<cur \div 58>>, r |-> cur % 58]
    ELSE LET mid == (lo + hi) \div 2
             a   == DivRange(acc, lo, mid, rem)
             b   == DivRange(acc, mid + 1, hi, a.r)
         IN  [q |-> a.q \o b.q, r |-> b.r]

\* divmod(acc, 58) for acc > 0
divmod58(acc) ==
    LET d == DivRange(acc, 1, Len(acc), 0)
    IN  [q |-> LStripZeros(d.q), r |-> d.r]

\* At most k rounds of b58encode_int's loop
\*     while i: i, idx = divmod(i, base); string = alphabet[idx] + string
\* giving what is left of i and the characters produced.
RECURSIVE EncodeRounds(_, _)
EncodeRounds(acc, k) ==
    IF acc = <<>> THEN [acc |-> <<>>, string |-> <<>>]
    ELSE IF k = 1
    THEN LET d == divmod58(acc)
         IN  [acc |-> d.q, string |-> <<BITCOIN_ALPHABET[d.r + 1]>>]
    ELSE LET a == EncodeRounds(acc, k \div 2)
             b == EncodeRounds(a.acc, k - k \div 2)
         IN  [acc |-> b.acc, string |-> b.string \o a.string]

\* b58encode_int(acc, default_one=False).  An n-byte integer is below
\* 58^(2n), so the loop ends within 2n rounds.
b58encode_int(acc) == EncodeRounds(acc, 2 * Len(acc)).string

\* b58encode without the "1" written for each leading zero byte
b58encode_no_leading_ones(v) == b58encode_int(LStripZeros(v))

b58encode(v) ==
    LET stripped == LStripZeros(v)
        ones     == [i \in 1..(Len(v) - Len(stripped)) |-> BITCOIN_ALPHABET[1]]
    IN  ones \o b58encode_int(stripped)

(***************************************************************************)
(* list_to_base58                                                          *)
(***************************************************************************)
\* InByteRange with the upper limit off by one: 0 <= n <= 256
InByteRange_upto256(x) ==
    IF x.t \notin {"int", "float"} THEN FALSE
    ELSE IF x.t = "int" THEN 0 <= x.n /\ x.n <= 256
    ELSE IF x.neg THEN x.n = 0 /\ \A i \in 1..Len(x.fd) : x.fd[i] = 0
    ELSE x.n < 256 \/ (x.n = 256 /\ \A i \in 1..Len(x.fd) : x.fd[i] = 0)

\* 0 <= n <= 255 for a number n
InByteRange(x) ==
    IF x.t \notin {"int", "float"} THEN FALSE
    ELSE IF x.t = "int" THEN 0 <= x.n /\ x.n <= 255
    ELSE IF x.neg THEN x.n = 0 /\ \A i \in 1..Len(x.fd) : x.fd[i] = 0
    ELSE x.n < 255 \/ (x.n = 255 /\ \A i \in 1..Len(x.fd) : x.fd[i] = 0)

\* RangeScan with the range check left out
RangeScan_skipped(items) == "ok"

\* any(not (0 <= n <= 255) for n in int_list): "bad" at the first number out
\* of range, "type" at the first element that does not compare with an int,
\* whichever comes first; "ok" when neither occurs.
RangeScan(items) ==
    LET stops == {i \in 1..Len(items) :
                    items[i].t \notin {"int", "float"} \/ ~InByteRange(items[i])}
        first == CHOOSE i \in stops : \A j \in stops : i <= j
    IN  IF stops = {} THEN "ok"
        ELSE IF items[first].t \notin {"int", "float"} THEN "type"
        ELSE "bad"

\* The message of the length error: f"Expected 32 or 64 integers, got {n}"
LengthMsg(n) == "Expected 32 or 64 integers, got " \o ToString(n)

RangeMsg == "All list items must be in 0-255 range"

\* list_to_base58 with the two checks in the other order: elements first,
\* length second
list_to_base58_range_first(int_list) ==
    IF int_list.t \notin {"list", "tuple"}
    THEN Raise("TypeError", "object is not iterable")
    ELSE LET scan == RangeScan(int_list.items)
         IN  IF scan = "type"
             THEN Raise("TypeError", "'<=' not supported between instances")
             ELSE IF scan = "bad" THEN Raise("ValueError", RangeMsg)
             ELSE IF Len(int_list.items) \notin {32, 64}
             THEN Raise("ValueError", LengthMsg(Len(int_list.items)))
             ELSE IF \E i \in 1..Len(int_list.items) : int_list.items[i].t # "int"
             THEN Raise("TypeError", "'float' object cannot be interpreted as an integer")
             ELSE [ok  |-> TRUE,
                   val |-> b58encode([i \in 1..Len(int_list.items) |-> int_list.items[i].n]),
                   exc |-> NoExc]

list_to_base58(int_list) ==
    IF int_list.t \notin {"list", "tuple"}
    THEN Raise("TypeError", "object has no len()")
    ELSE IF Len(int_list.items) \notin {32, 64}
    THEN Raise("ValueError", LengthMsg(Len(int_list.items)))
    ELSE LET scan == RangeScan(int_list.items)
         IN  IF scan = "type"
             THEN Raise("TypeError", "'<=' not supported between instances")
             ELSE IF scan = "bad" THEN Raise("ValueError", RangeMsg)
             ELSE IF \E i \in 1..Len(int_list.items) : int_list.items[i].t # "int"
             THEN Raise("TypeError", "'float' object cannot be interpreted as an integer")
             ELSE [ok  |-> TRUE,
                   val |-> b58encode([i \in 1..Len(int_list.items) |-> int_list.items[i].n]),
                   exc |-> NoExc]

(***************************************************************************)
(* pathlib: Path(source).exists(), .suffix and .read_text()                *)
(***************************************************************************)
\* The longest file name the operating system accepts (NAME_MAX); a longer
\* one makes stat() fail with ENAMETOOLONG.
NameMax == 255

\* What stands at the path the source names: nothing, a readable text file
\* with its content, a directory, or a file that cannot be read.
Absent == [kind |-> "absent", content |-> <<>>]

File(content) == [kind |-> "file", content |-> content]

Dir == [kind |-> "dir", content |-> <<>>]

Unreadable == [kind |-> "unreadable", content |-> <<>>]

\* str.rfind("."): the index of the last ".", 0 when there is none
RECURSIVE RFindDot(_, _)
RFindDot(name, i) ==
    IF i >= 1 /\ name[i] # "." THEN RFindDot(name, i - 1) ELSE i

\* PurePath.suffix of a name without directory part: from the last dot on,
\* unless that dot is the first or the last character.
Suffix(name) ==
    LET i == RFindDot(name, Len(name))
    IN  IF 1 < i /\ i < Len(name) THEN SubSeq(name, i, Len(name)) ELSE <<>>

\* Whether Path.exists() raises for a name: it calls stat(), and the
\* pathlib of some CPython releases re-raises ENAMETOOLONG while that of
\* others answers False.  Both happen for a name longer than NameMax.
StatOutcomes(source) == IF Len(source) > NameMax THEN {TRUE, FALSE} ELSE {FALSE}

(***************************************************************************)
(* load_list                                                               *)
(***************************************************************************)
\* One round of [int(x) for x in tokens]
IntStep(tokens, st) ==
    LET r == py_int(tokens[st.i])
    IN  [i |-> st.i + 1, acc |-> IF r.ok THEN Append(st.acc, r.val) ELSE st.acc, res |-> r]

RECURSIVE IntRounds(_, _, _)
IntRounds(tokens, st, k) ==
    IF st.i > Len(tokens) \/ ~st.res.ok THEN st
    ELSE IF k <= 1 THEN IntStep(tokens, st)
    ELSE IntRounds(tokens, IntRounds(tokens, st, k \div 2), k - k \div 2)

\* [int(x) for x in tokens]: the integers, or the first int() failure
IntsOf(tokens) ==
    LET st == IntRounds(tokens, [i |-> 1, acc |-> <<>>, res |-> Ret(PyNone)], Len(tokens))
    IN  IF st.res.ok THEN Ret(PyList(st.acc)) ELSE st.res

\* What load_list did besides computing its result: whether it read the
\* file, and which parser it handed which text.
Loaded(r, read, parser, text) ==
    [ok |-> r.ok, val |-> r.val, exc |-> r.exc,
     read |-> read, parser |-> parser, text |-> text]

\* csv_ints keeping the empty pieces: [int(x) for x in text.split(",")]
csv_ints_unfiltered(text) == IntsOf(split(text, ","))

\* [int(x) for x in text.split(",") if x.strip()]
csv_ints(text) == IntsOf(SelectSeq(split(text, ","), LAMBDA x : strip(x) # <<>>))

\* txt_ints without the commas turned into blanks: [int(x) for x in text.split()]
txt_ints_whitespace_only(text) == IntsOf(split_ws(text))

\* [int(x) for x in text.replace(",", " ").split()]
txt_ints(text) == IntsOf(split_ws(replace(text, ",", " ")))

\* text = path.read_text().strip() and the branch on path.suffix
parse_file(source, content) ==
    LET text == strip(content)
    IN  IF Suffix(source) = <<".", "j", "s", "o", "n">>
        THEN Loaded(json_loads(text), TRUE, "json", text)
        ELSE IF Suffix(source) = <<".", "c", "s", "v">>
        THEN Loaded(csv_ints(text), TRUE, "csv", text)
        ELSE Loaded(txt_ints(text), TRUE, "txt", text)

\* load_list trying the source as a literal when the file does not parse
load_list_fallback(source, fs, stat_raises) ==
    IF stat_raises
    THEN Loaded(Raise("OSError", "[Errno 36] File name too long"), FALSE, "none", <<>>)
    ELSE IF fs.kind # "absent"
    THEN IF fs.kind # "file"
         THEN Loaded(Raise("OSError", "cannot read the file"), FALSE, "none", <<>>)
         ELSE LET r == parse_file(source, fs.content)
              IN  IF r.ok THEN r
                  ELSE Loaded(literal_eval(source), TRUE, "literal", source)
    ELSE Loaded(literal_eval(source), FALSE, "literal", source)

load_list(source, fs, stat_raises) ==
    IF stat_raises
    THEN Loaded(Raise("OSError", "[Errno 36] File name too long"), FALSE, "none", <<>>)
    ELSE IF fs.kind # "absent"
    THEN IF fs.kind # "file"
         THEN Loaded(Raise("OSError", "cannot read the file"), FALSE, "none", <<>>)
         ELSE parse_file(source, fs.content)
    ELSE Loaded(literal_eval(source), FALSE, "literal", source)

(***************************************************************************)
(* argparse: ArgumentParser with the positional "source" and the default   *)
(* -h/--help                                                               *)
(***************************************************************************)
IsPrefix(a, b) == Len(a) <= Len(b) /\ SubSeq(b, 1, Len(a)) = a

HelpLong == <<"-", "-", "h", "e", "l", "p">>

\* An argument that selects the help action: -h, --help, or an abbreviation
\* of --help.
IsHelp(a) ==
    \/ a = <<"-", "h">>
    \/ Len(a) >= 3 /\ IsPrefix(a, HelpLong)

\* argparse's _negative_number_matcher: ^-\d+$|^-\d*\.\d+$
IsNegativeNumber(a) ==
    /\ Len(a) >= 2 /\ a[1] = "-"
    /\ LET k == SkipDigits(a, 2)
       IN  \/ k > Len(a)
           \/ a[k] = "." /\ k < Len(a) /\ SkipDigits(a, k + 1) > Len(a)

\* _parse_optional: whether an argument is taken for an option rather than
\* a positional.
IsOptionLike(a) ==
    /\ Len(a) >= 2 /\ a[1] = "-"
    /\ \/ IsHelp(a)
       \/ ~IsNegativeNumber(a) /\ \A i \in 1..Len(a) : a[i] # " "

DashDash == <<"-", "-">>

\* parse_args(): "ok" with the source, "help" (prints the help, exit 0), or
\* "error" (prints the usage and the error, exit 2).  Arguments after a "--"
\* are positionals.
parse_args(args) ==
    LET cut  == IF \E i \in 1..Len(args) : args[i] = DashDash
                THEN CHOOSE i \in 1..Len(args) :
                        args[i] = DashDash /\ \A j \in 1..(i - 1) : args[j] # DashDash
                ELSE Len(args) + 1
        opts == {i \in 1..(cut - 1) : IsOptionLike(args[i])}
        pos  == SelectSeq([i \in 1..Len(args) |-> IF i = cut \/ i \in opts THEN <<"-", "-">> ELSE args[i]],
                          LAMBDA a : a # DashDash)
    IN  IF \E i \in opts : IsHelp(args[i])
        THEN [outcome |-> "help", source |-> <<>>]
        ELSE IF opts # {} \/ Len(pos) # 1
        THEN [outcome |-> "error", source |-> <<>>]
        ELSE [outcome |-> "ok", source |-> pos[1]]

HelpText == <<"usage: list2base58.py [-h] source ...">>

UsageError == "usage: list2base58.py [-h] source\nlist2base58.py: error: ..."

(***************************************************************************)
(* The invocations explored: command lines and what the named path holds.  *)
(***************************************************************************)
\* Bounds of the explored inputs
MaxLen == 3

MaxLead == 2

Alphabet == {"0", "1", "-", ",", " ", "[", "]", "."}

\* Every text over Alphabet of at most MaxLen characters
ShortTexts == UNION {[1..n -> Alphabet] : n \in 0..MaxLen}

ExampleTexts ==
    { <<"1", ",", "2", ",", "3", ",", " ", "4">>,
      <<"[", "1", ",", "2", ",", "3", "]">>,
      <<"[", "1", ",", " ", "2", "]">>,
      <<"[", "[", "1", "]", ",", " ", "2", "]">>,
      <<"1", ",", ",", "2">>,
      <<" ", "1", " ", ",", "\n", "2">>,
      <<"1", "\n", "2">>,
      <<"1", ",", "2", "\n">>,
      <<"[", "1", ",", "\n", "2", "]">>,
      <<"[", " ", "1", " ", ",", " ", "-", "2", " ", ",", "]">>,
      <<"[", "1", ".", "5", ",", " ", "2", "]">>,
      <<"+", "1">>,
      <<"1", "_", "0">>,
      <<"1", "_", "_", "0">>,
      <<"1", "2", ",", " ", "1", "3", " ", ",", "1", "4">>,
      <<"1", "\t", "2">>,
      <<",", " ", "7", " ", ",", ",", "8", " ", ",">> }

\* str(n)
RECURSIVE NatText(_)
NatText(n) ==
    IF n < 10 THEN <<Digits[n + 1]>> ELSE NatText(n \div 10) \o <<Digits[(n % 10) + 1]>>

IntText(n) == IF n < 0 THEN <<"-">> \o NatText(0 - n) ELSE NatText(n)

\* elems[lo..hi] joined by sep
RECURSIVE JoinRange(_, _, _, _)
JoinRange(elems, sep, lo, hi) ==
    IF lo > hi THEN <<>>
    ELSE IF lo = hi THEN elems[lo]
    ELSE LET mid == (lo + hi) \div 2
         IN  JoinRange(elems, sep, lo, mid) \o sep \o JoinRange(elems, sep, mid + 1, hi)

\* The three ways a list of element texts is written: "[a,b]", "[a, b]" and
\* "a, b".
Renderings(elems) ==
    { <<"[">> \o JoinRange(elems, <<",">>, 1, Len(elems)) \o <<"]">>,
      <<"[">> \o JoinRange(elems, <<",", " ">>, 1, Len(elems)) \o <<"]">>,
      JoinRange(elems, <<",", " ">>, 1, Len(elems)) }

KeyLens == {32, 64}

WrongLens == {31, 33, 63, 65}

\* Keys: lead zero bytes, then head, then fill to the end.
Key(n, lead, head, fill) ==
    [i \in 1..n |-> IF i <= lead THEN 0 ELSE IF i = lead + 1 THEN head ELSE fill]

GoodKeys ==
    { Key(n, lead, head, fill) :
        n \in KeyLens, lead \in 0..MaxLead, head \in {0, 1, 255}, fill \in {0, 7, 255} }

\* Lists of a wrong length, and lists of either kind of length with one
\* element outside 0..255 at the front, inside or at the end
BadKeys ==
    { Key(n, 0, 1, 1) : n \in WrongLens }
    \cup { [Key(n, 0, 1, 1) EXCEPT ![p] = bad] :
             n \in KeyLens \cup WrongLens, p \in {1, 16}, bad \in {-1, 256} }
    \cup { [Key(n, 0, 1, 1) EXCEPT ![n] = bad] :
             n \in KeyLens \cup WrongLens, bad \in {-1, 256} }

\* Lists of the right length with an element that is not an integer
MixedElems ==
    { [i \in 1..32 |-> IF i = p THEN e ELSE <<"1">>] :
        p \in {1, 32}, e \in {<<"1", ".", "5">>, <<"[", "1", "]">>, <<"2", "5", "6", ".", "5">>} }

KeyTexts ==
    UNION { Renderings([i \in 1..Len(k) |-> IntText(k[i])]) : k \in GoodKeys \cup BadKeys }
    \cup UNION { Renderings(e) : e \in MixedElems }

Texts == ShortTexts \cup ExampleTexts \cup KeyTexts

JsonName == <<"k", ".", "j", "s", "o", "n">>

CsvName == <<"k", ".", "c", "s", "v">>

TxtName == <<"k", ".", "t", "x", "t">>

\* Names that end up in the "any other extension" branch
OtherNames == { <<"k", "e", "y">>, <<".", "c", "s", "v">>, <<"k", ".">>, <<"[", "1", "]">> }

\* Names that always denote a directory: Path("") is Path(".")
DirNames == { <<>>, <<".">>, <<".", ".">> }

Argvs ==
    { <<t>> : t \in Texts \cup {JsonName, CsvName, TxtName} \cup OtherNames }
    \cup { <<>>, <<<<"-", "h">>>>, <<HelpLong>>, <<<<"-", "-", "h">>>>,
           <<<<"[", "1", "]">>, <<"[", "2", "]">>>>,
           <<DashDash, <<"-", "[", "1", "]">>>>,
           <<JsonName, <<"-", "h">>>> }

\* What the path of the first argument may hold
FsFor(args) ==
    IF Len(args) # 1 THEN {Absent}
    ELSE IF args[1] \in DirNames THEN {Dir}
    ELSE IF args[1] \in {JsonName, CsvName, TxtName}
         THEN {Absent, Dir, Unreadable} \cup {File(c) : c \in Texts}
    ELSE IF args[1] \in OtherNames
         THEN {Absent} \cup {File(c) : c \in ExampleTexts}
    ELSE {Absent}

(***************************************************************************)
(* main                                                                    *)
(***************************************************************************)
VARIABLES
    argv,       \* sys.argv[1:]
    fs,         \* what the path named by the argument holds
    fs0,        \* fs as it was when the program started
    pc,         \* where main is
    source,     \* args.source
    loaded,     \* what load_list did and returned
    key_ints,   \* main's key_ints
    enc,        \* what list_to_base58 returned or raised
    b58,        \* main's b58
    exc,        \* the exception caught by main's handler
    stdout, stderr, exit_code

vars == <<argv, fs, fs0, pc, source, loaded, key_ints, enc, b58, exc,
          stdout, stderr, exit_code>>

NotLoaded == Loaded(Raise("", ""), FALSE, "none", <<>>)

NotCalled == [ok |-> FALSE, val |-> <<>>, exc |-> NoExc]

Init ==
    /\ argv \in Argvs
    /\ fs \in FsFor(argv)
    /\ fs0 = fs
    /\ pc = "main"
    /\ source = <<>>
    /\ loaded = NotLoaded
    /\ key_ints = PyNone
    /\ enc = NotCalled
    /\ b58 = <<>>
    /\ exc = NoExc
    /\ stdout = <<>>
    /\ stderr = ""
    /\ exit_code = -1

\* p.parse_args(), outside the try: argparse itself prints and exits on -h
\* and on a usage error.
ParseArgs ==
    /\ pc = "main"
    /\ LET r == parse_args(argv)
       IN  \/ /\ r.outcome = "ok"
              /\ source' = r.source
              /\ pc' = "load_list"
              /\ UNCHANGED <<stdout, stderr, exit_code>>
           \/ /\ r.outcome = "help"
              /\ stdout' = HelpText
              /\ exit_code' = 0
              /\ pc' = "exit"
              /\ UNCHANGED <<source, stderr>>
           \/ /\ r.outcome = "error"
              /\ stderr' = UsageError
              /\ exit_code' = 2
              /\ pc' = "exit"
              /\ UNCHANGED <<source, stdout>>
    /\ UNCHANGED <<argv, fs, fs0, loaded, key_ints, enc, b58, exc>>

\* key_ints = load_list(args.source)
LoadList ==
    /\ pc = "load_list"
    /\ \E stat_raises \in StatOutcomes(source) :
         LET r == load_list(source, fs, stat_raises)
         IN  /\ loaded' = r
             /\ IF r.ok
                THEN key_ints' = r.val /\ pc' = "list_to_base58" /\ UNCHANGED exc
                ELSE exc' = r.exc /\ pc' = "except" /\ UNCHANGED key_ints
    /\ UNCHANGED <<argv, fs, fs0, source, enc, b58, stdout, stderr, exit_code>>

\* b58 = list_to_base58(key_ints)
ListToBase58 ==
    /\ pc = "list_to_base58"
    /\ LET r == list_to_base58(key_ints)
       IN  /\ enc' = [ok |-> r.ok, val |-> IF r.ok THEN r.val ELSE <<>>, exc |-> r.exc]
           /\ IF r.ok
              THEN b58' = r.val /\ pc' = "print" /\ UNCHANGED exc
              ELSE exc' = r.exc /\ pc' = "except" /\ UNCHANGED b58
    /\ UNCHANGED <<argv, fs, fs0, source, loaded, key_ints, stdout, stderr, exit_code>>

\* print(b58), and main returns
PrintB58 ==
    /\ pc = "print"
    /\ stdout' = b58 \o <<"\n">>
    /\ exit_code' = 0
    /\ pc' = "exit"
    /\ UNCHANGED <<argv, fs, fs0, source, loaded, key_ints, enc, b58, exc, stderr>>

\* HandleException without the sys.exit(1): main returns, the status is 0
HandleException_no_exit ==
    /\ pc = "except"
    /\ stderr' = "Error: " \o exc.msg
    /\ exit_code' = 0
    /\ pc' = "exit"
    /\ UNCHANGED <<argv, fs, fs0, source, loaded, key_ints, enc, b58, exc, stdout>>

\* except Exception as e: print(f"Error: {e}", file=sys.stderr); sys.exit(1)
HandleException ==
    /\ pc = "except"
    /\ stderr' = "Error: " \o exc.msg
    /\ exit_code' = 1
    /\ pc' = "exit"
    /\ UNCHANGED <<argv, fs, fs0, source, loaded, key_ints, enc, b58, exc, stdout>>

Next == ParseArgs \/ LoadList \/ ListToBase58 \/ PrintB58 \/ HandleException

Spec == Init /\ [][Next]_vars

(***************************************************************************)
(* What the properties below speak of                                      *)
(***************************************************************************)
\* load_list has returned or raised
LoadListCalled == pc \in {"list_to_base58", "print", "except", "exit"} /\ loaded # NotLoaded

\* list_to_base58 has returned or raised
Called == loaded.ok /\ pc \in {"print", "except", "exit"}

IsSeq(v) == v.t \in {"list", "tuple"}

\* A list whose elements are all integers
IsIntList(v) == v.t = "list" /\ \A i \in 1..Len(v.items) : v.items[i].t = "int"

\* A list or tuple whose elements are all integers
IsIntSeq(v) == IsSeq(v) /\ \A i \in 1..Len(v.items) : v.items[i].t = "int"

AllInRange(v) == \A i \in 1..Len(v.items) : 0 <= v.items[i].n /\ v.items[i].n <= 255

Ints(v) == [i \in 1..Len(v.items) |-> v.items[i].n]

Indices(s) == [i \in 1..Len(s) |-> i]

\* s without the whitespace at its two ends
Trimmed(s) ==
    LET solid == SelectSeq(Indices(s), LAMBDA i : ~IsSpace(s[i]))
    IN  IF solid = <<>> THEN <<>> ELSE SubSeq(s, solid[1], solid[Len(solid)])

\* The pieces of s between its commas, in order
CommaPieces(s) ==
    LET cuts == <<0>> \o SelectSeq(Indices(s), LAMBDA i : s[i] = ",") \o <<Len(s) + 1>>
    IN  [k \in 1..(Len(cuts) - 1) |-> SubSeq(s, cuts[k] + 1, cuts[k + 1] - 1)]

\* The tokens of a CSV content: the trimmed pieces that are not empty
CsvTokens(s) ==
    SelectSeq([k \in 1..Len(CommaPieces(s)) |-> Trimmed(CommaPieces(s)[k])],
              LAMBDA t : t # <<>>)

IsSeparator(c) == IsSpace(c) \/ c = ","

\* The tokens of a plain-text content: the maximal runs of characters that
\* are neither whitespace nor commas, in order
RunTokens(s) ==
    LET first == SelectSeq(Indices(s),
                     LAMBDA i : ~IsSeparator(s[i]) /\ (i = 1 \/ IsSeparator(s[i - 1])))
        last  == SelectSeq(Indices(s),
                     LAMBDA i : ~IsSeparator(s[i]) /\ (i = Len(s) \/ IsSeparator(s[i + 1])))
    IN  [k \in 1..Len(first) |-> SubSeq(s, first[k], last[k])]

\* What loading the tokens must give: the integers they denote, in order, or
\* a failure when one of them denotes none
LoadedAs(tokens) ==
    IF \A k \in 1..Len(tokens) : py_int(tokens[k]).ok
    THEN /\ loaded.ok
         /\ loaded.val = PyList([k \in 1..Len(tokens) |-> py_int(tokens[k]).val])
    ELSE /\ ~loaded.ok
         /\ loaded.exc.type = "ValueError"

\* 58 * acc + add for the base-256 digits acc[lo..hi], least significant
\* first, with carry coming in from the digits before lo: the digits and
\* the carry out
RECURSIVE MulRange(_, _, _, _)
MulRange(acc, lo, hi, carry) ==
    IF lo = hi
    THEN LET cur == acc[lo] * 58 + carry
         IN  [d |-> <<cur % 256>>, c |-> cur \div 256]
    ELSE LET mid == (lo + hi) \div 2
             a   == MulRange(acc, lo, mid, carry)
             b   == MulRange(acc, mid + 1, hi, a.c)
         IN  [d |-> a.d \o b.d, c |-> b.c]

MulAdd58(acc, add) ==
    IF acc = <<>> THEN (IF add = 0 THEN <<>> ELSE <<add>>)
    ELSE LET m == MulRange(acc, 1, Len(acc), add)
         IN  IF m.c = 0 THEN m.d ELSE m.d \o <<m.c>>

AlphabetIndex(c) == (CHOOSE k \in 1..58 : BITCOIN_ALPHABET[k] = c) - 1

\* At most k rounds of "for c in str: num = num * 58 + alphabet.index(c)"
RECURSIVE DecodeRounds(_, _, _)
DecodeRounds(str, st, k) ==
    IF st.i > Len(str) THEN st
    ELSE IF k <= 1
    THEN [i |-> st.i + 1, num |-> MulAdd58(st.num, AlphabetIndex(str[st.i]))]
    ELSE DecodeRounds(str, DecodeRounds(str, st, k \div 2), k - k \div 2)

\* base58 decoding: a zero byte for each leading "1", then the bytes, most
\* significant first, of the number the remaining characters denote
b58decode(str) ==
    LET ones == SelectSeq(Indices(str), LAMBDA i : \A j \in 1..i : str[j] = "1")
        num  == DecodeRounds(str, [i |-> Len(ones) + 1, num |-> <<>>], Len(str)).num
    IN  [i \in 1..Len(ones) |-> 0] \o [i \in 1..Len(num) |-> num[Len(num) + 1 - i]]

(***************************************************************************)
(* Properties                                                              *)
(***************************************************************************)
\* C1: whenever list_to_base58 was called with a list or tuple whose length
\* is neither 32 nor 64, it raised the ValueError "Expected 32 or 64
\* integers, got <length>", whatever the elements are (out of range, not
\* even numbers): never the range error, never a result.
C1_LengthErrorFirst ==
    (Called /\ IsSeq(key_ints) /\ Len(key_ints.items) \notin {32, 64})
        => /\ ~enc.ok
           /\ enc.exc = Exc("ValueError", LengthMsg(Len(key_ints.items)))
           /\ enc.exc.msg # RangeMsg
           /\ b58 = <<>>

\* A list of 33 integers, one of them 256, was refused for its length.
C1_Witness ==
    /\ Called /\ IsIntSeq(key_ints) /\ Len(key_ints.items) = 33
    /\ \E i \in 1..33 : key_ints.items[i].n = 256
    /\ enc.exc = Exc("ValueError", LengthMsg(33))

\* C2: whenever list_to_base58 was called with 32 or 64 integers of which at
\* least one is below 0 or above 255, at whatever position, it raised the
\* ValueError "All list items must be in 0-255 range" and no string was
\* returned or printed.
C2_RangeError ==
    (Called /\ IsIntSeq(key_ints) /\ Len(key_ints.items) \in {32, 64} /\ ~AllInRange(key_ints))
        => /\ ~enc.ok
           /\ enc.exc = Exc("ValueError", RangeMsg)
           /\ enc.val = <<>>
           /\ b58 = <<>>
           /\ stdout = <<>>

\* 64 integers, all in range but the last, which is 256, were refused.
C2_Witness ==
    /\ Called /\ IsIntSeq(key_ints) /\ Len(key_ints.items) = 64
    /\ key_ints.items[64].n = 256
    /\ \A i \in 1..63 : 0 <= key_ints.items[i].n /\ key_ints.items[i].n <= 255
    /\ enc.exc = Exc("ValueError", RangeMsg)

\* C3: whenever list_to_base58 was called with 32 or 64 integers that are all
\* in 0..255, it returned a string, and base58-decoding that string gives the
\* same integers, in the same order and number, leading zeros included.
C3_RoundTrip ==
    (Called /\ IsIntSeq(key_ints) /\ Len(key_ints.items) \in {32, 64} /\ AllInRange(key_ints))
        => /\ enc.ok
           /\ b58decode(enc.val) = Ints(key_ints)

\* A 64-byte key that starts with two zero bytes was encoded.
C3_Witness ==
    /\ Called /\ enc.ok /\ IsIntSeq(key_ints) /\ Len(key_ints.items) = 64
    /\ key_ints.items[1].n = 0 /\ key_ints.items[2].n = 0 /\ key_ints.items[3].n = 255
    /\ b58decode(enc.val) = Ints(key_ints)

\* C4 as stated: every invocation that ends in failure, whichever stage
\* failed (argument handling included), ends with "Error: <message>" on
\* stderr, the exit status 1, and nothing on stdout.
C4_AsStated ==
    (pc = "exit" /\ (parse_args(argv).outcome = "error" \/ exc # NoExc))
        => /\ exc # NoExc
           /\ stderr = "Error: " \o exc.msg
           /\ exit_code = 1
           /\ stdout = <<>>

\* C4, amended: an invocation in which loading, parsing, a validation or the
\* encoding failed ends with "Error: <message of the exception>" on stderr,
\* the exit status 1 and nothing on stdout; one whose arguments were refused
\* ends with argparse's usage message on stderr, the exit status 2 and
\* nothing on stdout; and no other invocation ends with a nonzero status.
C4_FailureReport ==
    pc = "exit" =>
        /\ (loaded # NotLoaded /\ ~loaded.ok)
              => /\ stderr = "Error: " \o loaded.exc.msg
                 /\ exit_code = 1
                 /\ stdout = <<>>
        /\ (Called /\ ~enc.ok)
              => /\ stderr = "Error: " \o enc.exc.msg
                 /\ exit_code = 1
                 /\ stdout = <<>>
        /\ parse_args(argv).outcome = "error"
              => /\ stderr = UsageError
                 /\ exit_code = 2
                 /\ stdout = <<>>
        /\ exit_code # 0
              => \/ loaded # NotLoaded /\ ~loaded.ok
                 \/ Called /\ ~enc.ok
                 \/ parse_args(argv).outcome = "error"

\* The range error of a 32-element list was reported and the status is 1.
C4_Witness ==
    /\ pc = "exit" /\ exit_code = 1
    /\ Len(key_ints.items) = 32
    /\ stderr = "Error: " \o RangeMsg

\* C5 as stated: every invocation ends either with the base58 string and a
\* newline on stdout and the status 0, or with an "Error: ..." line on
\* stderr and the status 1, and with the former only when the loader
\* returned 32 or 64 elements that are all in 0..255.
C5_AsStated ==
    pc = "exit" =>
         LET success == enc.ok /\ stdout = enc.val \o <<"\n">> /\ stderr = "" /\ exit_code = 0
             failure == exc # NoExc /\ stderr = "Error: " \o exc.msg
                        /\ stdout = <<>> /\ exit_code = 1
         IN  /\ success \/ failure
             /\ ~(success /\ failure)
             /\ success => /\ IsIntSeq(key_ints) /\ Len(key_ints.items) \in {32, 64}
                           /\ AllInRange(key_ints)

\* The ways main ends that hold in a state
Outcomes ==
    LET success == enc.ok /\ stdout = enc.val \o <<"\n">> /\ stderr = "" /\ exit_code = 0
        failure == exc # NoExc /\ stderr = "Error: " \o exc.msg
                   /\ stdout = <<>> /\ exit_code = 1
        usage   == parse_args(argv).outcome = "error" /\ stderr = UsageError
                   /\ stdout = <<>> /\ exit_code = 2
        help    == parse_args(argv).outcome = "help" /\ stdout = HelpText
                   /\ stderr = "" /\ exit_code = 0
    IN  {o \in {"success", "failure", "usage", "help"} :
           \/ o = "success" /\ success
           \/ o = "failure" /\ failure
           \/ o = "usage" /\ usage
           \/ o = "help" /\ help}

\* How far main has come
Rank(at) ==
    CASE at = "main" -> 0
      [] at = "load_list" -> 1
      [] at = "list_to_base58" -> 2
      [] at \in {"print", "except"} -> 3
      [] at = "exit" -> 4

\* C5, amended: every invocation ends, in exactly one of four ways: the
\* base58 string and a newline on stdout with the status 0; an "Error: ..."
\* line on stderr with the status 1; argparse's usage message on stderr with
\* the status 2; argparse's help on stdout with the status 0.  It ends the
\* first way only when the loader returned 32 or 64 integers that are all in
\* 0..255 and list_to_base58 returned the string printed.  (It ends because
\* every step takes main further and the last place is the exit; nothing is
\* on stdout and there is no status before that.)
C5_Outcomes ==
    /\ [][Rank(pc') > Rank(pc)]_vars
    /\ [](pc # "exit" => stdout = <<>> /\ exit_code = -1)
    /\ [](pc = "exit" =>
            /\ Cardinality(Outcomes) = 1
            /\ "success" \in Outcomes
                  => /\ loaded.ok /\ key_ints = loaded.val
                     /\ IsIntSeq(key_ints) /\ Len(key_ints.items) \in {32, 64}
                     /\ AllInRange(key_ints)
                     /\ enc = list_to_base58(key_ints))

\* A 32-byte key read from a file was printed.
C5_Witness ==
    /\ pc = "exit" /\ exit_code = 0 /\ loaded.read
    /\ Len(key_ints.items) = 32
    /\ stdout = enc.val \o <<"\n">> /\ enc.val # <<>>

\* C6 as stated: whatever load_list returns is a list whose elements are all
\* integers, on each of its four input paths.
C6_AsStated ==
    (LoadListCalled /\ loaded.ok) => IsIntList(loaded.val)

\* C7 as stated: when a .json file holds a list of integers written as a
\* JSON array, load_list gives for the same text, passed as an argument that
\* names no existing path, the same list.
C7_AsStated ==
    (LoadListCalled /\ loaded.parser = "json" /\ loaded.ok /\ IsIntList(loaded.val))
        => \A stat_raises \in StatOutcomes(fs.content) :
              LET lit == load_list(fs.content, Absent, stat_raises)
              IN  lit.ok /\ lit.val = loaded.val

\* C8: for an existing file named *.csv, load_list gives the integers that
\* the pieces between the content's commas denote, trimmed, the empty and
\* blank pieces dropped, in file order, and fails when a piece that is left
\* is not an integer; the content "1,2,3, 4" gives [1, 2, 3, 4].
C8_CsvTokens ==
    /\ (LoadListCalled /\ loaded.parser = "csv") => LoadedAs(CsvTokens(fs.content))
    /\ (LoadListCalled /\ loaded.parser = "csv"
          /\ fs.content = <<"1", ",", "2", ",", "3", ",", " ", "4">>)
        => loaded.val = PyList(<<PyInt(1), PyInt(2), PyInt(3), PyInt(4)>>)
    /\ (LoadListCalled /\ fs.kind = "file" /\ Suffix(source) = <<".", "c", "s", "v">>)
        => loaded.parser = "csv"

\* The content ", 7 ,,8 ," of a .csv file was loaded as [7, 8].
C8_Witness ==
    /\ LoadListCalled /\ loaded.parser = "csv"
    /\ fs.content = <<",", " ", "7", " ", ",", ",", "8", " ", ",">>
    /\ loaded.ok /\ loaded.val = PyList(<<PyInt(7), PyInt(8)>>)

\* C9: for an existing file whose extension is neither .json nor .csv,
\* load_list gives the integers that the runs of characters between the
\* content's whitespace and commas denote, in file order (so that separators
\* in a row, at the start or at the end give no element), and fails when a
\* run is not an integer.
C9_RunTokens ==
    /\ (LoadListCalled /\ loaded.parser = "txt") => LoadedAs(RunTokens(fs.content))
    /\ (LoadListCalled /\ fs.kind = "file"
          /\ Suffix(source) \notin {<<".", "j", "s", "o", "n">>, <<".", "c", "s", "v">>})
        => loaded.parser = "txt"

\* The content ", 7 ,,8 ," of a file without extension was loaded as [7, 8].
C9_Witness ==
    /\ LoadListCalled /\ loaded.parser = "txt" /\ source = <<"k", "e", "y">>
    /\ fs.content = <<",", " ", "7", " ", ",", ",", "8", " ", ",">>
    /\ loaded.ok /\ loaded.val = PyList(<<PyInt(7), PyInt(8)>>)

\* C10: load_list reads a file only when the source names something that
\* exists, and then parses what it read and never the source as a literal;
\* when the source names nothing that exists it reads nothing and parses
\* nothing but the source itself; and the filesystem stays as it was.
C10_ReadsOnlyExisting ==
    /\ fs = fs0
    /\ loaded.read
         => /\ fs.kind = "file"
            /\ loaded.parser \in {"json", "csv", "txt"}
            /\ loaded.text = strip(fs.content)
    /\ (LoadListCalled /\ fs.kind # "absent") => loaded.parser # "literal"
    /\ (LoadListCalled /\ fs.kind = "absent")
         => /\ ~loaded.read
            /\ \/ loaded.parser = "literal" /\ loaded.text = source
               \/ loaded.parser = "none" /\ ~loaded.ok /\ Len(source) > NameMax

\* A file named "[1]" exists: it was read, and the name was not evaluated.
C10_Witness ==
    /\ LoadListCalled /\ source = <<"[", "1", "]">> /\ fs.kind = "file"
    /\ loaded.read /\ loaded.parser = "txt" /\ ~loaded.ok

====
